---- MODULE Spec2Model ----
(***************************************************************************)
(* Model of src/library_ui.py, class BookCollection: the in-memory list of *)
(* books of each manager instance, the JSON storage file the instances     *)
(* share, and the operations add_book, delete_book, update_book,           *)
(* search_books and get_reading_stats.                                     *)
(*                                                                         *)
(* Text (str) is a sequence of one-character strings, so that str.lower()  *)
(* and the substring test "in" are computed and not assumed.  The storage  *)
(* file is a sequence of JSON tokens: json.dump writes it and json.load    *)
(* parses it.                                                              *)
(***************************************************************************)
EXTENDS Integers, Sequences, FiniteSets, TLC

VARIABLES
    file,       \* books_data.json: [exists, text], text a sequence of JSON tokens
    book_list,  \* book_list[m]: self.book_list of manager instance m (a Python value)
    call,       \* the last operation called: [op, m, ...arguments]
    ret,        \* what that call returned or raised: [kind, val]
    old,        \* self.book_list of the calling manager when the call began
    oldfile,    \* the storage file when the call began
    lastSaver   \* the manager whose save_to_file wrote the file last (0: nobody yet)

vars == <<file, book_list, call, ret, old, oldfile, lastSaver>>

\* Longest list add_book is let to build.
MaxBooks == 2

Managers == {1, 2}

----------------------------------------------------------------------------
(* Text *)

\* str.lower() on one character of the alphabet used here.
lowerChar(c) ==
    CASE c = "A" -> "a"
      [] c = "B" -> "b"
      [] c = "X" -> "x"
      [] c = "Y" -> "y"
      [] OTHER -> c

\* str.lower()
lower(s) == [i \in 1..Len(s) |-> lowerChar(s[i])]

\* Python's  needle in hay  on str: hay has a slice equal to needle.
Contains(needle, hay) ==
    \E i \in 0..(Len(hay) - Len(needle)) :
        \A j \in 1..Len(needle) : hay[i + j] = needle[j]

Digit(n) ==
    CASE n = 0 -> "0" [] n = 1 -> "1" [] n = 2 -> "2" [] n = 3 -> "3"
      [] n = 4 -> "4" [] n = 5 -> "5" [] n = 6 -> "6" [] n = 7 -> "7"
      [] n = 8 -> "8" [] n = 9 -> "9"

\* datetime.strftime("%Y-%m-%d"): four digits, two digits, two digits.
strftime(now) ==
    << Digit(now.y \div 1000), Digit((now.y \div 100) % 10),
       Digit((now.y \div 10) % 10), Digit(now.y % 10), "-",
       Digit(now.m \div 10), Digit(now.m % 10), "-",
       Digit(now.d \div 10), Digit(now.d % 10) >>

----------------------------------------------------------------------------
(* Python values held in self.book_list *)

\* A list (of book dicts).
PyList(s) == [t |-> "list", v |-> s]

\* An int, as json.load returns for a file holding one number.
PyInt(digits) == [t |-> "int", v |-> digits]

IsList(x) == x.t = "list"

\* The dict add_book builds, in its key order.
KeyOrder == <<"title", "author", "year", "genre", "read", "added_date">>

----------------------------------------------------------------------------
(* JSON text: json.dump and json.load *)

Tok(k, s) == [k |-> k, s |-> s]
LBRACK == Tok("[", <<>>)
RBRACK == Tok("]", <<>>)
LBRACE == Tok("{", <<>>)
RBRACE == Tok("}", <<>>)
COMMA  == Tok(",", <<>>)
COLON  == Tok(":", <<>>)
EOF    == Tok("eof", <<>>)

\* The one key whose value is a bool (the form's checkbox); the others hold str.
IsBoolKey(k) == k = "read"

\* A value of a dict as JSON: true / false for a bool, a quoted string for a str.
DumpScalar(k, x) ==
    IF IsBoolKey(k)
    THEN (IF x THEN Tok("true", <<>>) ELSE Tok("false", <<>>))
    ELSE Tok("str", x)

RECURSIVE DumpMembers(_, _)
DumpMembers(book, keys) ==
    IF keys = <<>> THEN <<>>
    ELSE LET k == Head(keys)
             rest == DumpMembers(book, Tail(keys))
         IN  IF k \notin DOMAIN book THEN rest
             ELSE <<Tok("str", <<k>>), COLON, DumpScalar(k, book[k])>>
                  \o (IF rest = <<>> THEN <<>> ELSE <<COMMA>> \o rest)

\* One dict: { "key": value, ... } in the dict's key order.
DumpBook(book) == <<LBRACE>> \o DumpMembers(book, KeyOrder) \o <<RBRACE>>

RECURSIVE DumpElements(_)
DumpElements(books) ==
    IF books = <<>> THEN <<>>
    ELSE DumpBook(Head(books))
         \o (IF Tail(books) = <<>> THEN <<>>
             ELSE <<COMMA>> \o DumpElements(Tail(books)))

\* json.dump(self.book_list, file, indent=4), white space left out.
json_dump(x) ==
    IF IsList(x) THEN <<LBRACK>> \o DumpElements(x.v) \o <<RBRACK>>
    ELSE <<Tok("num", x.v)>>

TokAt(toks, i) == IF i >= 1 /\ i <= Len(toks) THEN toks[i] ELSE EOF

Fail == [ok |-> FALSE, val |-> <<>>, nxt |-> 0]

\* The dict of a sequence of <<key, value>> pairs; a repeated key keeps its
\* last value, as json.load does.
DictOf(pairs) ==
    [k \in {pairs[i][1] : i \in 1..Len(pairs)} |->
        LET last == CHOOSE i \in 1..Len(pairs) :
                        /\ pairs[i][1] = k
                        /\ \A j \in (i + 1)..Len(pairs) : pairs[j][1] # k
        IN  pairs[last][2]]

RECURSIVE ParseMembers(_, _, _)
ParseMembers(toks, i, acc) ==
    LET key == TokAt(toks, i)
        val == TokAt(toks, i + 2)
        sep == TokAt(toks, i + 3)
    IN  IF \/ key.k # "str" \/ Len(key.s) # 1
           \/ TokAt(toks, i + 1) # COLON
           \/ val.k \notin {"str", "true", "false"}
        THEN Fail
        ELSE LET v == IF val.k = "str" THEN val.s ELSE (val.k = "true")
                 got == Append(acc, <<key.s[1], v>>)
             IN  IF sep = COMMA THEN ParseMembers(toks, i + 4, got)
                 ELSE IF sep = RBRACE
                      THEN [ok |-> TRUE, val |-> DictOf(got), nxt |-> i + 4]
                      ELSE Fail

\* A JSON object starting at toks[i] = "{".
ParseObject(toks, i) ==
    IF TokAt(toks, i) # LBRACE THEN Fail
    ELSE IF TokAt(toks, i + 1) = RBRACE
         THEN [ok |-> TRUE, val |-> DictOf(<<>>), nxt |-> i + 2]
         ELSE ParseMembers(toks, i + 1, <<>>)

RECURSIVE ParseElements(_, _, _)
ParseElements(toks, i, acc) ==
    LET r == ParseObject(toks, i)
    IN  IF ~r.ok THEN Fail
        ELSE LET got == Append(acc, r.val)
                 sep == TokAt(toks, r.nxt)
             IN  IF sep = COMMA THEN ParseElements(toks, r.nxt + 1, got)
                 ELSE IF sep = RBRACK
                      THEN [ok |-> TRUE, val |-> PyList(got), nxt |-> r.nxt + 1]
                      ELSE Fail

\* A JSON array starting at toks[i] = "[".
ParseArray(toks, i) ==
    IF TokAt(toks, i + 1) = RBRACK
    THEN [ok |-> TRUE, val |-> PyList(<<>>), nxt |-> i + 2]
    ELSE ParseElements(toks, i + 1, <<>>)

\* json.load(file) on the JSON this model covers: one number, or an array of
\* objects whose values are strings, true or false.  ok = FALSE is
\* json.JSONDecodeError (no value, an unclosed array, text after the value).
json_load(toks) ==
    LET first == TokAt(toks, 1)
        r == IF first.k = "num"
             THEN [ok |-> TRUE, val |-> PyInt(first.s), nxt |-> 2]
             ELSE IF first = LBRACK THEN ParseArray(toks, 1)
             ELSE Fail
    IN  IF r.ok /\ r.nxt = Len(toks) + 1 THEN r ELSE Fail

----------------------------------------------------------------------------
(* The storage file *)

Absent == [exists |-> FALSE, text |-> <<>>]
FileOf(toks) == [exists |-> TRUE, text |-> toks]

\* read_from_file: the parsed file; [] when the file is absent
\* (FileNotFoundError) or does not parse (json.JSONDecodeError).
read_from_file(f) ==
    IF ~f.exists THEN PyList(<<>>)
    ELSE LET r == json_load(f.text)
         IN  IF r.ok THEN r.val ELSE PyList(<<>>)

\* Faulty variant of save_to_file: the file opened with "a", so that the
\* dump is written after what the file held.
save_to_file_append(x) ==
    FileOf((IF file.exists THEN file.text ELSE <<>>) \o json_dump(x))

\* save_to_file: open(..., "w") replaces the file by json.dump(self.book_list).
save_to_file(x) == FileOf(json_dump(x))

----------------------------------------------------------------------------
(* The operations of BookCollection as functions of self.book_list *)

\* The dict add_book builds; now is datetime.now().
new_book(title, author, year, genre, read, now) ==
    [title |-> title, author |-> author, year |-> year, genre |-> genre,
     read |-> read, added_date |-> strftime(now)]

\* Faulty variant of add_book: the book put first, insert(0, new_book).
add_book_front(books, title, author, year, genre, read, now) ==
    <<new_book(title, author, year, genre, read, now)>> \o books

\* self.book_list.append(new_book)
add_book(books, title, author, year, genre, read, now) ==
    Append(books, new_book(title, author, year, genre, read, now))

\* Faulty variant of delete_book: only the first book with the title goes.
RECURSIVE delete_book_first(_, _)
delete_book_first(books, title) ==
    IF books = <<>> THEN <<>>
    ELSE IF lower(Head(books).title) # lower(title)
         THEN <<Head(books)>> \o delete_book_first(Tail(books), title)
         ELSE Tail(books)

\* [book for book in self.book_list if book["title"].lower() != title.lower()]
RECURSIVE delete_book(_, _)
delete_book(books, title) ==
    IF books = <<>> THEN <<>>
    ELSE IF lower(Head(books).title) # lower(title)
         THEN <<Head(books)>> \o delete_book(Tail(books), title)
         ELSE delete_book(Tail(books), title)

\* Faulty variant of find_book: the loop does not stop at the first book
\* with the title, and ends on the last one.
RECURSIVE find_book_last(_, _, _)
find_book_last(books, original_title, i) ==
    IF i > Len(books) THEN 0
    ELSE LET later == find_book_last(books, original_title, i + 1)
         IN  IF later > 0 THEN later
             ELSE IF lower(books[i].title) = lower(original_title) THEN i ELSE 0

\* The index at which update_book's loop stops: the first book, from index i
\* on, whose lowered title equals the lowered original_title; 0 when the loop
\* runs to the end.
RECURSIVE find_book(_, _, _)
find_book(books, original_title, i) ==
    IF i > Len(books) THEN 0
    ELSE IF lower(books[i].title) = lower(original_title) THEN i
         ELSE find_book(books, original_title, i + 1)

\* dict.update: the keys of updated_data are set, the others kept.
dict_update(book, updated_data) ==
    [k \in DOMAIN book \cup DOMAIN updated_data |->
        IF k \in DOMAIN updated_data THEN updated_data[k] ELSE book[k]]

\* update_book's effect on the list when the loop stops at index i > 0.
update_book(books, i, updated_data) ==
    [books EXCEPT ![i] = dict_update(books[i], updated_data)]

\* Faulty variant of search_filter: the term is lowered, the title and the
\* author are not.
RECURSIVE search_filter_raw(_, _)
search_filter_raw(books, search_term) ==
    IF books = <<>> THEN <<>>
    ELSE LET b == Head(books)
             hit == \/ Contains(lower(search_term), b.title)
                    \/ Contains(lower(search_term), b.author)
         IN  (IF hit THEN <<b>> ELSE <<>>) \o search_filter_raw(Tail(books), search_term)

\* search_books: the list itself for an empty term, else the books whose
\* lowered title or lowered author contains the lowered term.
RECURSIVE search_filter(_, _)
search_filter(books, search_term) ==
    IF books = <<>> THEN <<>>
    ELSE LET b == Head(books)
             hit == \/ Contains(lower(search_term), lower(b.title))
                    \/ Contains(lower(search_term), lower(b.author))
         IN  (IF hit THEN <<b>> ELSE <<>>) \o search_filter(Tail(books), search_term)

search_books(books, search_term) ==
    IF search_term = <<>> THEN books ELSE search_filter(books, search_term)

\* Faulty variant of count_read: the condition left out, every book counts.
RECURSIVE count_all(_)
count_all(books) ==
    IF books = <<>> THEN 0 ELSE 1 + count_all(Tail(books))

\* sum(1 for book in self.book_list if book["read"])
RECURSIVE count_read(_)
count_read(books) ==
    IF books = <<>> THEN 0
    ELSE (IF Head(books).read THEN 1 ELSE 0) + count_read(Tail(books))

RECURSIVE Gcd(_, _)
Gcd(a, b) == IF b = 0 THEN a ELSE Gcd(b, a % b)

\* The number n / d (d > 0) in lowest terms; completion_rate is kept exact.
Ratio(n, d) == LET g == Gcd(n, d) IN [num |-> n \div g, den |-> d \div g]

\* get_reading_stats
get_reading_stats(books) ==
    LET total == Len(books)
        read == count_read(books)
        unread == total - read
    IN  [total |-> total, read |-> read, unread |-> unread,
         completion_rate |-> IF total > 0 THEN Ratio(read * 100, total)
                             ELSE Ratio(0, 1)]

----------------------------------------------------------------------------
(* Inputs *)

\* The clock readings datetime.now() is drawn from.
Dates == { [y |-> 2024, m |-> 12, d |-> 31], [y |-> 2025, m |-> 1, d |-> 5] }

BookA == [title |-> <<"A", "b">>, author |-> <<"X">>,
          year |-> <<"1", "9", "6", "5">>, genre |-> <<"S", "F">>, read |-> FALSE]
BookB == [title |-> <<"a", "B">>, author |-> <<"b", "Y">>,
          year |-> <<>>, genre |-> <<>>, read |-> TRUE]
\* No title: add_book itself checks nothing (the form does).
BookC == [title |-> <<>>, author |-> <<"Y">>,
          year |-> <<>>, genre |-> <<>>, read |-> FALSE]

\* The arguments of add_book.
AddArgs == {BookA, BookB, BookC}
PeerAddArgs == {BookA, BookB}
PeerDates == { [y |-> 2025, m |-> 1, d |-> 5] }

\* The titles given to delete_book and update_book.
Titles == { <<"A", "B">>, <<"b">> }

\* The updated_data given to update_book: some of the keys, and all five of
\* the edit form.
Patches == { [read |-> TRUE],
             [title |-> <<"B">>, genre |-> <<>>],
             BookB,
             [added_date |-> strftime([y |-> 2024, m |-> 12, d |-> 31])] }
PeerPatches == { [read |-> TRUE] }

\* The terms given to search_books.
Terms == { <<>>, <<"B">>, <<"x">>, <<"a", "b">>, <<"y", "b">> }
PeerTerms == { <<"B">> }

\* A book with none of the Titles.
BookD == [title |-> <<"Y">>, author |-> <<"X">>,
          year |-> <<>>, genre |-> <<"S", "F">>, read |-> TRUE]

\* The book add_book stored for arguments b at clock reading now.
Stored(b, now) == new_book(b.title, b.author, b.year, b.genre, b.read, now)

\* A collection saved by an earlier run: two books whose titles differ only
\* in case, each after a book with another title.
SavedShelf ==
    LET day == [y |-> 2024, m |-> 12, d |-> 31]
    IN  <<Stored(BookC, day), Stored(BookA, day), Stored(BookD, day), Stored(BookB, day)>>

\* What the storage file holds when the program starts: nothing (no file),
\* an empty file, a cut-off array, one number, and collections saved before.
InitFiles ==
    { Absent,
      FileOf(<<>>),
      FileOf(<<LBRACK>>),
      FileOf(<<Tok("num", <<"4", "2">>)>>),
      FileOf(json_dump(PyList(<<>>))),
      FileOf(json_dump(PyList(SavedShelf))) }

----------------------------------------------------------------------------
(* State machine *)

Return(v) == [kind |-> "return", val |-> v]
Raise(e) == [kind |-> "raise", val |-> e]

\* Every manager instance is constructed from the same storage file.
Init ==
    /\ file \in InitFiles
    /\ book_list = [m \in Managers |-> read_from_file(file)]
    /\ call = [op |-> "start", m |-> 0]
    /\ ret = Return("None")
    /\ old = PyList(<<>>)
    /\ oldfile = file
    /\ lastSaver = 0

Begin(m, c) ==
    /\ call' = c
    /\ old' = book_list[m]
    /\ oldfile' = file

\* BookCollection(): a new instance for session m reads the file (each rerun
\* of main constructs one).
Construct(m) ==
    /\ Begin(m, [op |-> "__init__", m |-> m])
    /\ book_list' = [book_list EXCEPT ![m] = read_from_file(file)]
    /\ ret' = Return("None")
    /\ UNCHANGED <<file, lastSaver>>

AddBook(m, title, author, year, genre, read, now) ==
    /\ Begin(m, [op |-> "add_book", m |-> m, title |-> title, author |-> author,
                 year |-> year, genre |-> genre, read |-> read])
    /\ \/ /\ IsList(book_list[m])
          /\ Len(book_list[m].v) < MaxBooks
          /\ book_list' = [book_list EXCEPT ![m] =
                 PyList(add_book(book_list[m].v, title, author, year, genre, read, now))]
          /\ file' = save_to_file(book_list'[m])
          /\ lastSaver' = m
          /\ ret' = Return("None")
       \/ /\ ~IsList(book_list[m])       \* an int has no append
          /\ ret' = Raise("AttributeError")
          /\ UNCHANGED <<book_list, file, lastSaver>>

\* Faulty variant of DeleteBook: the list is filtered and not saved.
DeleteBookNoSave(m, title) ==
    /\ Begin(m, [op |-> "delete_book", m |-> m, title |-> title])
    /\ \/ /\ IsList(book_list[m])
          /\ book_list' = [book_list EXCEPT ![m] =
                 PyList(delete_book(book_list[m].v, title))]
          /\ ret' = Return("None")
          /\ UNCHANGED <<file, lastSaver>>
       \/ /\ ~IsList(book_list[m])
          /\ ret' = Raise("TypeError")
          /\ UNCHANGED <<book_list, file, lastSaver>>

DeleteBook(m, title) ==
    /\ Begin(m, [op |-> "delete_book", m |-> m, title |-> title])
    /\ \/ /\ IsList(book_list[m])
          /\ book_list' = [book_list EXCEPT ![m] =
                 PyList(delete_book(book_list[m].v, title))]
          /\ file' = save_to_file(book_list'[m])
          /\ lastSaver' = m
          /\ ret' = Return("None")
       \/ /\ ~IsList(book_list[m])       \* an int is not iterable
          /\ ret' = Raise("TypeError")
          /\ UNCHANGED <<book_list, file, lastSaver>>

\* Faulty variant of UpdateBook: save_to_file after the loop, so that a call
\* that finds no book saves too.
UpdateBookSaveOnMiss(m, original_title, updated_data) ==
    /\ Begin(m, [op |-> "update_book", m |-> m, original_title |-> original_title,
                 updated_data |-> updated_data])
    /\ \/ /\ IsList(book_list[m])
          /\ find_book(book_list[m].v, original_title, 1) > 0
          /\ book_list' = [book_list EXCEPT ![m] =
                 PyList(update_book(book_list[m].v,
                                    find_book(book_list[m].v, original_title, 1),
                                    updated_data))]
          /\ file' = save_to_file(book_list'[m])
          /\ lastSaver' = m
          /\ ret' = Return(TRUE)
       \/ /\ IsList(book_list[m])
          /\ find_book(book_list[m].v, original_title, 1) = 0
          /\ file' = save_to_file(book_list[m])
          /\ lastSaver' = m
          /\ ret' = Return(FALSE)
          /\ UNCHANGED book_list
       \/ /\ ~IsList(book_list[m])
          /\ ret' = Raise("TypeError")
          /\ UNCHANGED <<book_list, file, lastSaver>>

UpdateBook(m, original_title, updated_data) ==
    /\ Begin(m, [op |-> "update_book", m |-> m, original_title |-> original_title,
                 updated_data |-> updated_data])
    /\ \/ /\ IsList(book_list[m])
          /\ find_book(book_list[m].v, original_title, 1) > 0
          /\ book_list' = [book_list EXCEPT ![m] =
                 PyList(update_book(book_list[m].v,
                                    find_book(book_list[m].v, original_title, 1),
                                    updated_data))]
          /\ file' = save_to_file(book_list'[m])
          /\ lastSaver' = m
          /\ ret' = Return(TRUE)
       \/ /\ IsList(book_list[m])
          /\ find_book(book_list[m].v, original_title, 1) = 0
          /\ ret' = Return(FALSE)
          /\ UNCHANGED <<book_list, file, lastSaver>>
       \/ /\ ~IsList(book_list[m])       \* an int is not iterable
          /\ ret' = Raise("TypeError")
          /\ UNCHANGED <<book_list, file, lastSaver>>

SearchBooks(m, search_term) ==
    /\ Begin(m, [op |-> "search_books", m |-> m, search_term |-> search_term])
    /\ \/ /\ IsList(book_list[m])
          /\ ret' = Return(PyList(search_books(book_list[m].v, search_term)))
       \/ /\ ~IsList(book_list[m])
          /\ search_term = <<>>          \* return self.book_list
          /\ ret' = Return(book_list[m])
       \/ /\ ~IsList(book_list[m])
          /\ search_term # <<>>          \* an int is not iterable
          /\ ret' = Raise("TypeError")
    /\ UNCHANGED <<book_list, file, lastSaver>>

GetReadingStats(m) ==
    /\ Begin(m, [op |-> "get_reading_stats", m |-> m])
    /\ \/ /\ IsList(book_list[m])
          /\ ret' = Return(get_reading_stats(book_list[m].v))
       \/ /\ ~IsList(book_list[m])       \* an int has no len()
          /\ ret' = Raise("TypeError")
    /\ UNCHANGED <<book_list, file, lastSaver>>

\* One call by manager m, its arguments drawn from the given sets.
Step(m, adds, dates, patches, terms) ==
    \/ Construct(m)
    \/ \E a \in adds, now \in dates :
          AddBook(m, a.title, a.author, a.year, a.genre, a.read, now)
    \/ \E t \in Titles : DeleteBook(m, t)
    \/ \E t \in Titles, p \in patches : UpdateBook(m, t, p)
    \/ \E x \in terms : SearchBooks(m, x)
    \/ GetReadingStats(m)

\* One manager (one session) works on the file.
Next == Step(1, AddArgs, Dates, Patches, Terms)

Spec == Init /\ [][Next]_vars

\* Two managers (two sessions) that loaded the same file, in any interleaving.
NextPeers == \E m \in Managers : Step(m, PeerAddArgs, PeerDates, PeerPatches, PeerTerms)

SpecPeers == Init /\ [][NextPeers]_vars

----------------------------------------------------------------------------
(* Properties *)

\* The list of the manager that made the last call, when the call ended.
new == book_list[call.m].v

Returned(op) == call.op = op /\ ret.kind = "return"

\* Equality of titles without regard to case.
SameTitle(a, b) == lower(a) = lower(b)

\* The indices of the books of a list whose title is t, case aside.
Matching(books, t) == {i \in 1..Len(books) : SameTitle(books[i].title, t)}

\* The j-th smallest element of a set of numbers.
Nth(S, j) == CHOOSE i \in S : Cardinality({k \in S : k <= i}) = j

\* The books of a list at the indices S, in the order of the list.
Picked(books, S) == [j \in 1..Cardinality(S) |-> books[Nth(S, j)]]

\* s has a slice equal to x, case aside.
HasSlice(s, x) ==
    \E a \in 1..(Len(s) + 1) : \E b \in 0..Len(s) :
        lower(SubSeq(s, a, b)) = lower(x)

\* C1: when add_book, delete_book, or an update_book that found its target
\* has ended, the storage file exists and a newly constructed manager reads
\* from it exactly the caller's list: the same books, field for field, in
\* the same order.
C1_SavedFileReadsBackAsList ==
    ( \/ Returned("add_book")
      \/ Returned("delete_book")
      \/ (Returned("update_book") /\ ret.val = TRUE) )
    => /\ file.exists
       /\ json_load(file.text).ok
       /\ read_from_file(file) = book_list[call.m]

\* Reached: an update_book that saved a list of several books, one of them
\* with an empty genre, which the file reads back as.
C1_Witness ==
    /\ Returned("update_book") /\ ret.val = TRUE
    /\ Len(new) >= 2
    /\ \E i \in 1..Len(new) : new[i].genre = <<>>
    /\ \E i \in 1..Len(new) : new[i].genre # <<>>
    /\ read_from_file(file) = book_list[call.m]

\* C2: update_book with an original_title no book has (case aside) returns
\* False, leaves the list as it was and does not save: the file is as before.
C2_UpdateMissChangesNothing ==
    (call.op = "update_book" /\ IsList(old)
        /\ Matching(old.v, call.original_title) = {})
    => /\ ret.kind = "return" /\ ret.val = FALSE
       /\ book_list[call.m] = old
       /\ file = oldfile

\* Reached: an update_book that found no target among the books of a list.
C2_Witness ==
    /\ call.op = "update_book" /\ IsList(old)
    /\ Matching(old.v, call.original_title) = {}
    /\ Len(old.v) >= 1
    /\ ret.kind = "return" /\ ret.val = FALSE

\* C3: after delete_book(t) no book with title t (case aside) is left; all
\* the other books are, unchanged and in their order; with no such book the
\* list is unchanged and nothing is raised; deleting t again changes nothing.
C3_DeleteRemovesEveryMatch ==
    (call.op = "delete_book" /\ IsList(old))
    => LET keep == (1..Len(old.v)) \ Matching(old.v, call.title)
       IN  /\ ret.kind = "return"
           /\ Matching(new, call.title) = {}
           /\ new = Picked(old.v, keep)
           /\ (Matching(old.v, call.title) = {} => book_list[call.m] = old)
           /\ delete_book(new, call.title) = new

\* Reached: a delete_book that removed two books whose titles differ in
\* case and kept two others, the first before and the second between them.
C3_Witness ==
    /\ Returned("delete_book") /\ IsList(old)
    /\ Len(old.v) = 4 /\ Len(new) = 2
    /\ Matching(old.v, call.title) = {2, 4}
    /\ old.v[2].title # old.v[4].title
    /\ new = <<old.v[1], old.v[3]>>

\* C4: a manager constructed while the storage file is absent, does not
\* parse, or parses to something that is no list of books starts with the
\* empty list.
C4_LoadFallsBackToEmpty ==
    LET notCollection ==
            \/ ~file.exists
            \/ ~json_load(file.text).ok
            \/ ~IsList(json_load(file.text).val)
    IN  (call.op = "__init__" /\ notCollection)
        => book_list[call.m] = PyList(<<>>)

\* C5: no operation changes the added_date of a book that stays in the list:
\* update_book keeps it at every index, add_book at every index there was,
\* and delete_book in every book it keeps.
C5_AddedDateNeverChanges ==
    /\ (Returned("update_book") /\ ret.val = TRUE
          => \A i \in 1..Len(old.v) : new[i].added_date = old.v[i].added_date)
    /\ (Returned("add_book")
          => \A i \in 1..Len(old.v) : new[i].added_date = old.v[i].added_date)
    /\ (Returned("delete_book")
          => LET keep == (1..Len(old.v)) \ Matching(old.v, call.title)
             IN  /\ Len(new) = Cardinality(keep)
                 /\ \A j \in 1..Len(new) :
                        new[j].added_date = old.v[Nth(keep, j)].added_date)

\* C6: add_book on any list appends one book, the last, with the five given
\* values and a non-empty added_date, leaves the books before it as they
\* were, and search_books(title) right after returns that book.
C6_AddAppendsAndIsFound ==
    (call.op = "add_book" /\ IsList(old))
    => LET n == Len(old.v)
           found == search_books(new, call.title)
       IN  /\ ret.kind = "return"
           /\ Len(new) = n + 1
           /\ \A i \in 1..n : new[i] = old.v[i]
           /\ new[n + 1].title = call.title
           /\ new[n + 1].author = call.author
           /\ new[n + 1].year = call.year
           /\ new[n + 1].genre = call.genre
           /\ new[n + 1].read = call.read
           /\ Len(new[n + 1].added_date) > 0
           /\ \E k \in 1..Len(found) : found[k] = new[n + 1]

\* Reached: an add_book to a list that already held a book, after which
\* search_books(title) returns both, the new one last.
C6_Witness ==
    /\ Returned("add_book") /\ IsList(old)
    /\ Len(old.v) = 1 /\ Len(new) = 2
    /\ call.title # <<>>
    /\ call.title # old.v[1].title
    /\ search_books(new, call.title) = new

\* C7: search_books("") returns the whole list in its order; for any other
\* term it returns exactly the books whose title or author has the term as
\* a slice, case aside, in the order of the list, so it is a sub-sequence of
\* search_books(""); search_books changes neither the list nor the file.
C7_SearchIsOrderedFilter ==
    (call.op = "search_books" /\ IsList(old))
    => LET x == call.search_term
           hits == {i \in 1..Len(old.v) :
                       \/ HasSlice(old.v[i].title, x)
                       \/ HasSlice(old.v[i].author, x)}
       IN  /\ ret.kind = "return"
           /\ IsList(ret.val)
           /\ (x = <<>> => ret.val.v = old.v)
           /\ (x # <<>> => ret.val.v = Picked(old.v, hits))
           /\ \E S \in SUBSET (1..Len(old.v)) :
                  ret.val.v = Picked(search_books(old.v, <<>>), S)
           /\ book_list[call.m] = old
           /\ file = oldfile

\* Reached: a search_books that returned some but not all of the books, one
\* of them found by its author alone, in a case other than the term's.
C7_Witness ==
    /\ Returned("search_books") /\ IsList(old)
    /\ Len(ret.val.v) >= 1
    /\ Len(ret.val.v) < Len(old.v)
    /\ \E k \in 1..Len(ret.val.v) :
          /\ ~HasSlice(ret.val.v[k].title, call.search_term)
          /\ ~Contains(call.search_term, ret.val.v[k].author)

\* The value of the fraction a completion_rate stands for is pct.
IsPercent(rate, pct) == rate.den > 0 /\ rate.num = pct * rate.den

\* C8: in every reachable state get_reading_stats gives, for each manager,
\* total = the length of its list, read = the number of its books with read
\* true, unread = total - read, and completion_rate = 0 for an empty list
\* and read / total * 100 otherwise; and that is what a call returns.
C8_StatsCountTheList ==
    /\ \A m \in Managers : IsList(book_list[m]) =>
          LET books == book_list[m].v
              st == get_reading_stats(books)
              n == Len(books)
              r == Cardinality({i \in 1..n : books[i].read})
          IN  /\ st.total = n
              /\ st.read = r
              /\ st.unread = n - r
              /\ st.total = st.read + st.unread
              /\ st.completion_rate.den > 0
              /\ (n = 0 => IsPercent(st.completion_rate, 0))
              /\ (n > 0 => st.completion_rate.num * n = r * 100 * st.completion_rate.den)
              /\ (n > 0 /\ r = 0 => IsPercent(st.completion_rate, 0))
              /\ (n > 0 /\ r = n => IsPercent(st.completion_rate, 100))
    /\ (call.op = "get_reading_stats" /\ IsList(old)
          => /\ ret.kind = "return"
             /\ ret.val = get_reading_stats(book_list[call.m].v)
             /\ book_list[call.m] = old)

\* Reached: update_book sets read on the one, unread, book of a list: the
\* statistics go from (1, 0, 1, 0) to (1, 1, 0, 100).
C8_Witness ==
    /\ Returned("update_book") /\ ret.val = TRUE
    /\ Len(old.v) = 1
    /\ get_reading_stats(old.v) =
          [total |-> 1, read |-> 0, unread |-> 1,
           completion_rate |-> [num |-> 0, den |-> 1]]
    /\ get_reading_stats(new) =
          [total |-> 1, read |-> 1, unread |-> 0,
           completion_rate |-> [num |-> 100, den |-> 1]]

\* C9: when some book has the original_title (case aside), update_book sets
\* on the first such book exactly the keys of updated_data, keeps its other
\* keys, its place and every other book, saves, and returns True.
C9_UpdateTouchesFirstMatchOnly ==
    (call.op = "update_book" /\ IsList(old)
        /\ Matching(old.v, call.original_title) # {})
    => LET hits == Matching(old.v, call.original_title)
           i == CHOOSE h \in hits : \A g \in hits : h <= g
           patch == call.updated_data
       IN  /\ ret.kind = "return" /\ ret.val = TRUE
           /\ Len(new) = Len(old.v)
           /\ \A j \in 1..Len(new) : j # i => new[j] = old.v[j]
           /\ DOMAIN new[i] = DOMAIN old.v[i] \cup DOMAIN patch
           /\ \A k \in DOMAIN patch : new[i][k] = patch[k]
           /\ \A k \in DOMAIN old.v[i] \ DOMAIN patch : new[i][k] = old.v[i][k]
           /\ file = FileOf(json_dump(book_list[call.m]))
           /\ lastSaver = call.m

\* Reached: an update_book that renamed the first of two books with the
\* original_title and left the second, later in the list, as it was.
C9_Witness ==
    /\ Returned("update_book") /\ ret.val = TRUE
    /\ Cardinality(Matching(old.v, call.original_title)) = 2
    /\ Cardinality(Matching(new, call.original_title)) = 1
    /\ "title" \in DOMAIN call.updated_data
    /\ \E i \in Matching(old.v, call.original_title) :
          \E j \in Matching(new, call.original_title) :
              i < j /\ new[j] = old.v[j] /\ new[i] # old.v[i]

\* C10: with two managers that loaded the same file and call in any order,
\* the file always reads back as the list of the manager that saved last,
\* whatever the other manager holds or saved before.
C10_FileIsLastSaversList ==
    lastSaver # 0
    => /\ file.exists
       /\ read_from_file(file) = book_list[lastSaver]

\* Reached: manager 1 holds a book it saved (the file was its list); then
\* manager 2, whose list was empty, added a book and saved, and the file no
\* longer has manager 1's book.
C10_Witness ==
    /\ Returned("add_book") /\ call.m = 2 /\ lastSaver = 2
    /\ old = PyList(<<>>)
    /\ IsList(book_list[1]) /\ Len(book_list[1].v) >= 1
    /\ oldfile = FileOf(json_dump(book_list[1]))
    /\ LET onDisk == read_from_file(file).v
       IN  \E i \in 1..Len(book_list[1].v) :
              \A j \in 1..Len(onDisk) : onDisk[j] # book_list[1].v[i]

====
